---------------------------- MODULE Spec2Model ----------------------------
(***************************************************************************)
(* Model of Pi5WebcamRecorder's CamObj (src/CamObj.py): the TTL pulse      *)
(* decoder (GPIO_rising_edge / GPIO_falling_edge / handle_GPIO /           *)
(* delayed_start), the recording session (start_record / stop_record /     *)
(* __stop_recording_now / process_one_frame) and the frame pipeline        *)
(* (read_camera_continuous -> self.q -> consumer_thread).                  *)
(*                                                                         *)
(* Time is in milliseconds: every threshold the source writes in seconds   *)
(* is the same number times 1000.  The record `self` holds the fields of   *)
(* one CamObj under the names the source gives them.  Fields that only     *)
(* feed the on-screen display (frame, pending_start_timer, CPU_lag_frames, *)
(* final_status_string, last_frame_written, need_update_button_state_flag, *)
(* last_frame_received_elapsed_time) are left out; of                      *)
(* get_elapsed_time_string only the os.stat it calls is kept.  The fields  *)
(* lock_used and unlocked_write record how the handlers use self.lock,     *)
(* close_pc where the main thread is in close().  The record `env` also    *)
(* holds what the cameras of the process share (CamObj.global_lock, the    *)
(* video files of the data folder) and the shared-memory ring buffer of    *)
(* src/extra/shared_arrays.py.                                             *)
(***************************************************************************)
EXTENDS Integers, Sequences, FiniteSets, TLC

VARIABLES
    self,       \* the CamObj instance (fields named as in the source)
    prod,       \* locals of read_camera_continuous (the producer thread)
    cons,       \* locals of consumer_thread
    env,        \* the world outside: clock, GPIO line, camera, disk, config,
                \* and what the cameras of the process share
    script,     \* position of the scripted pulse generator (scenario specs)
    hist        \* history: sessions created, frames the producer discarded

vars == <<self, prod, cons, env, script, hist>>

-----------------------------------------------------------------------------
(* Program constants (seconds in the source, milliseconds here).           *)

NUM_TTL_PULSES_TO_START_SESSION == 2
NUM_TTL_PULSES_TO_STOP_SESSION == 3
BINARY_BIT_PULSE_THRESHOLD == 100
wait_interval_sec == 500
ID_BITS == 16
QSIZE_LIMIT == 250
LAG_LIMIT == 2000
RETRY_INTERVAL == 5000
\* pulses shorter than this are ignored as switch bounce (ms)
DEBOUNCE == 5

(* Bounds of the model.                                                    *)

\* clock value, in ms, at construction
T0 == 10000
\* GPIO edges fed by the free-running edge generator
MaxEdges == 6
\* frames the camera delivers in the pipeline specifications
MaxReads == 3
\* frames the camera delivers in the producer specification
MaxProducerReads == 255
\* longest burst of short pulses
MaxBurst == 4
\* numeric suffixes a date's earlier recordings may have used up
MaxSuffix == 2
\* slots of the shared-memory ring buffer (max_bytes / bytes of one frame)
n_items == 3
\* frames offered to the ring buffer
MaxPuts == 7

(* Inputs: the frame rates of config.txt the producer is run with          *)
NativeRates == {30}
RecordRates == {10, 20, 30}

(* Inputs: the delays, in ms, the edge generator may put between edges:    *)
(* one value in each band the decoder distinguishes.                       *)
Durations == {2, 50, 150, 300, 600, 1200, 2500}

(* Inputs: on-times of a short pulse (0.01 - 0.2 s), pauses inside a burst  *)
ShortWidths == {10, 100, 190}
BurstGaps == {20, 50, 99}

(* The timings, in ms, of an ID transmission, as the source's comments      *)
(* give them.                                                              *)
ID_START_PULSE == 300
BIT0_PULSE == 50
BIT1_PULSE == 150
INTER_BIT_PAUSE == 50
CHECKSUM_PAUSE == 200

-----------------------------------------------------------------------------
(* Values                                                                  *)

TTL_type == {"Normal", "Binary", "Checksum", "Debug"}

\* ArrayQueue.__init__: view is the slots of the shared array (0: never
\* written) once the producer's ArrayView exists, el_shape the dtype and
\* shape of its elements, idx_item its write position; queue carries the
\* records (timestamp, TTL_on, index) of the pushed frames to the consumer,
\* read_queue the popped indices back.  puts counts the calls of put, Full is
\* whether the last one raised.  History: pushed, the (timestamp, frame,
\* TTL_on) of the puts that did not raise, and got, what the calls of get
\* have returned.
ArrayQueueInit ==
    [ view |-> [i \in 0..(n_items - 1) |-> 0], has_view |-> FALSE,
      el_shape |-> 0,
      idx_item |-> 0, last_item |-> 0, queue |-> <<>>, read_queue |-> <<>>,
      puts |-> 0, Full |-> FALSE, pushed |-> <<>>, got |-> <<>> ]

\* the element shapes (with dtype) of the frames offered to the ring buffer:
\* two shapes of the same number of bytes, so that the slots of both views
\* are the same bytes of the shared array
ElShapes == {1, 2}

\* the boxes (cameras) of the process
BoxIds == {1, 2}

\* a box outside start_record's file naming
NotStarting ==
    [ pc |-> "idle", animal_ID |-> [tag |-> "None", digits |-> <<>>],
      suffix_count |-> 0, filename_video |-> <<>> ]
PendingAction == {"Nothing", "StartRecord", "ForceStop", "Exiting"}

\* current_animal_ID: None, one of the marker strings, or str(number)
ID_None == [tag |-> "None", digits |-> <<>>]
ID_Pending == [tag |-> "Pending", digits |-> <<>>]
ID_Unknown == [tag |-> "Unknown", digits |-> <<>>]
ID_ChecksumFail == [tag |-> "Checksum fail", digits |-> <<>>]

RECURSIVE Digits(_)
\* Python's str() of a non-negative int, as the sequence of its decimal digits
Digits(n) == IF n < 10 THEN <<n>> ELSE Digits(n \div 10) \o <<n % 10>>

str(n) == [tag |-> "str", digits |-> Digits(n)]

\* The CamObj after __init__ run at clock value t
CamObjInit(t) ==
    [ cam |-> "Open", status |-> TRUE,
      IsRecording |-> FALSE,
      TTL_num |-> -1, TTL_binary_bits |-> 0, current_animal_ID |-> ID_None,
      TTL_tmp_ID |-> 0, TTL_mode |-> "Normal", TTL_debug_count |-> 0,
      TTL_checksum |-> 0,
      most_recent_gpio_rising_edge_time |-> -1,
      most_recent_gpio_falling_edge_time |-> -1,
      num_consec_TTLs |-> 0, GPIO_active |-> 0,
      pending |-> "Nothing", q |-> <<>>,
      Writer |-> "None", fid |-> "None", fid_TTL |-> "None",
      start_recording_time |-> t,
      dropped_recording_frames |-> -1,       \* None
      frames_received |-> 0, frames_recorded |-> 0,
      pending_stop_record_time |-> 0,
      \* contents of the files named filename_video, filename_timestamp and
      \* filename_timestamp_TTL (rows only, headers left out)
      file_video |-> <<>>, file_frames |-> <<>>, file_TTLs |-> <<>>,
      \* wake-up times of the running delayed_start threads
      delayed_threads |-> {},
      \* an exception has escaped one of this object's handlers
      raised |-> FALSE,
      \* CamObj.codec names a codec that OpenCV has ("installed") or lacks
      codec |-> "installed",
      \* the file named filename_video exists (os.stat finds it)
      video_file_exists |-> FALSE,
      \* self.lock, a threading.RLock: the depth to which the running
      \* handler holds it (0 between handlers)
      lock |-> 0,
      \* the running handler has acquired self.lock (reset when it returns)
      lock_used |-> FALSE,
      \* IsRecording has been assigned by a handler not holding self.lock
      unlocked_write |-> FALSE,
      \* where the main thread is in close(): not called, in its
      \* `while self.IsRecording` loop, joining the threads, returned
      close_pc |-> "none" ]

\* `with self.lock:` entered
lock_acquire(s) == [s EXCEPT !.lock = @ + 1, !.lock_used = TRUE]

\* `with self.lock:` left
lock_release(s) == [s EXCEPT !.lock = @ - 1]

\* the assignment self.IsRecording = v
set_IsRecording(s, v) ==
    [s EXCEPT !.IsRecording = v,
              !.unlocked_write = @ \/ (s.lock = 0)]

-----------------------------------------------------------------------------
(* Recording session                                                       *)

\* CamObj.stop_record, the body of its `with self.lock:`
stop_record_locked(s, force, t) ==
    LET s1 == IF force THEN [s EXCEPT !.pending = "ForceStop"]
              ELSE [s EXCEPT !.pending_stop_record_time = t]
    IN  IF s1.pending = "StartRecord" THEN [s1 EXCEPT !.pending = "Nothing"]
        ELSE s1

stop_record_lockfree(s, force, t) == stop_record_locked(s, force, t)

\* CamObj.stop_record
stop_record(s, force, t) ==
    lock_release(stop_record_locked(lock_acquire(s), force, t))

\* CamObj.__stop_recording_now, the body of its `with self.lock:`
\* (get_elapsed_time_string calls os.stat(filename_video) when Writer is not
\* None; the exception it raises for a missing file is caught nowhere)
stop_recording_now_locked(s) ==
    LET s1 == IF s.IsRecording THEN set_IsRecording(s, FALSE) ELSE s
    IN  IF s.IsRecording /\ s.Writer # "None" /\ ~s.video_file_exists
        THEN [s1 EXCEPT !.current_animal_ID = ID_None, !.raised = TRUE]
        ELSE [s1 EXCEPT !.current_animal_ID = ID_None,
                        !.frames_received = 0,
                        !.frames_recorded = 0,
                        !.Writer = "None",
                        !.fid = "None",
                        !.fid_TTL = "None"]

\* CamObj.__stop_recording_now
stop_recording_now(s) ==
    lock_release(stop_recording_now_locked(lock_acquire(s)))

start_record_again(s, animal_ID, t, disk) ==
    IF ~disk
    THEN [s EXCEPT !.frames_received = 0, !.frames_recorded = 0,
                   !.TTL_num = 0, !.Writer = "Released"]
    ELSE set_IsRecording(
           [s EXCEPT !.frames_received = 0,
                     !.frames_recorded = 0,
                     !.TTL_num = 0,
                     !.current_animal_ID =
                         IF animal_ID.tag # "None" THEN animal_ID ELSE @,
                     !.Writer = IF s.codec = "installed" THEN "Open"
                                ELSE "Unopened",
                     !.video_file_exists = (s.codec = "installed"),
                     !.fid = "Open",
                     !.fid_TTL = "Open",
                     !.file_video = <<>>, !.file_frames = <<>>,
                     !.file_TTLs = <<>>,
                     !.start_recording_time = t,
                     !.dropped_recording_frames = 0], TRUE)

\* CamObj.start_record(animal_ID) at clock t, the body of its
\* `with self.lock:`; disk: files can be created.
\* animal_ID = ID_None stands for the default argument None.
start_record_locked(s, animal_ID, t, disk) ==
    IF s.IsRecording THEN s
    ELSE
      LET s1 == [s EXCEPT !.frames_received = 0,
                          !.frames_recorded = 0,
                          !.TTL_num = 0,
                          !.current_animal_ID =
                              IF animal_ID # ID_None THEN animal_ID ELSE @]
          \* cv2.VideoWriter does not raise: without the codec, or when the
          \* file cannot be created, the writer is left unopened and the
          \* `return False` that follows the error message is commented out
          opened == disk /\ s.codec = "installed"
      IN  IF ~disk
          THEN \* open() of the frame log raises: the writer is released and
               \* False returned
               [s1 EXCEPT !.Writer = "Released"]
          ELSE set_IsRecording(
                 [s1 EXCEPT !.Writer = IF opened THEN "Open" ELSE "Unopened",
                            !.video_file_exists = opened,
                            !.fid = "Open",
                            !.fid_TTL = "Open",
                            !.file_video = <<>>, !.file_frames = <<>>,
                            !.file_TTLs = <<>>,
                            !.start_recording_time = t,
                            !.dropped_recording_frames = 0], TRUE)

start_record_lockfree(s, animal_ID, t, disk) ==
    IF s.cam = "None" THEN s
    ELSE start_record_locked(s, animal_ID, t, disk)

\* CamObj.start_record: the camera test, then the `with self.lock:` block
start_record(s, animal_ID, t, disk) ==
    IF s.cam = "None" THEN s
    ELSE lock_release(start_record_locked(lock_acquire(s), animal_ID, t, disk))

-----------------------------------------------------------------------------
(* Pulse decoder                                                           *)

TTL_write_unguarded(s, row, disk) ==
    IF disk THEN [s EXCEPT !.file_TTLs = Append(@, row)]
    ELSE [s EXCEPT !.raised = TRUE]

TTL_write_skipped(s, row, disk) == s

\* the try/except around fid_TTL.write in handle_GPIO
TTL_write(s, row, disk) ==
    IF disk THEN [s EXCEPT !.file_TTLs = Append(@, row)]
    ELSE s      \* the write raises, the except clause prints and goes on

\* CamObj.handle_GPIO, the test that ends it while a session is recorded
stop_on_burst_late(s, t) ==
    IF s.num_consec_TTLs > NUM_TTL_PULSES_TO_STOP_SESSION
    THEN stop_record(s, FALSE, t)
    ELSE s

stop_on_burst(s, t) ==
    IF s.num_consec_TTLs >= NUM_TTL_PULSES_TO_STOP_SESSION
    THEN stop_record(s, FALSE, t)
    ELSE s

\* CamObj.handle_GPIO, called at the falling edge of a normal pulse
handle_GPIO(s, t, disk) ==
    LET s0 == lock_acquire(s) IN
    IF ~s0.IsRecording
    THEN lock_release(
           IF s0.num_consec_TTLs = NUM_TTL_PULSES_TO_START_SESSION
           THEN [s0 EXCEPT !.delayed_threads = @ \cup {t + wait_interval_sec}]
           ELSE s0)
    ELSE
      LET gpio_onset_time ==
              s.most_recent_gpio_rising_edge_time - s.start_recording_time
          gpio_offset_time ==
              s.most_recent_gpio_falling_edge_time - s.start_recording_time
          s1 == [s0 EXCEPT !.TTL_num = @ + 1]
          s2 == IF s1.fid_TTL # "None"
                THEN IF 0 < s1.pending_stop_record_time
                        /\ s1.pending_stop_record_time
                             < s1.most_recent_gpio_rising_edge_time
                     THEN s1
                     ELSE TTL_write(s1, <<s1.TTL_num, gpio_onset_time,
                                          gpio_offset_time>>, disk)
                ELSE s1
      IN  stop_on_burst(lock_release(s2), t)

GPIO_rising_edge_keeps_count(s, t) ==
    LET elapsed_pause == t - s.most_recent_gpio_falling_edge_time
        s1 == [s EXCEPT !.most_recent_gpio_rising_edge_time = t,
                        !.GPIO_active = 1]
    IN  IF s1.TTL_mode = "Binary"
        THEN IF 150 < elapsed_pause /\ elapsed_pause < 500
             THEN [s1 EXCEPT !.current_animal_ID =
                                 IF s1.TTL_binary_bits # ID_BITS
                                 THEN ID_Unknown ELSE @,
                             !.TTL_mode = "Checksum"]
             ELSE IF elapsed_pause >= 250
             THEN [s1 EXCEPT !.TTL_mode = "Normal"]
             ELSE s1
        ELSE IF s1.TTL_mode = "Debug"
        THEN IF elapsed_pause > 1000
             THEN [s1 EXCEPT !.TTL_mode = "Normal"]
             ELSE s1
        ELSE s1

\* CamObj.GPIO_rising_edge(t)
GPIO_rising_edge(s, t) ==
    LET elapsed_pause == t - s.most_recent_gpio_falling_edge_time
        s1 == [s EXCEPT !.most_recent_gpio_rising_edge_time = t,
                        !.GPIO_active = 1,
                        !.num_consec_TTLs =
                            IF elapsed_pause > 100 THEN 0 ELSE @]
    IN  IF s1.TTL_mode = "Binary"
        THEN IF 150 < elapsed_pause /\ elapsed_pause < 500
             THEN [s1 EXCEPT !.current_animal_ID =
                                 IF s1.TTL_binary_bits # ID_BITS
                                 THEN ID_Unknown ELSE @,
                             !.TTL_mode = "Checksum"]
             ELSE IF elapsed_pause >= 250
             THEN [s1 EXCEPT !.TTL_mode = "Normal"]
             ELSE s1
        ELSE IF s1.TTL_mode = "Debug"
        THEN IF elapsed_pause > 1000
             THEN [s1 EXCEPT !.TTL_mode = "Normal"]
             ELSE s1
        ELSE s1

binary_bit_lsb_first(s, on_time) ==
    IF BINARY_BIT_PULSE_THRESHOLD < on_time
    THEN [s EXCEPT !.TTL_binary_bits = @ + 1,
                   !.TTL_checksum = 1 - @,
                   !.TTL_tmp_ID = @ + 2 ^ s.TTL_binary_bits]
    ELSE [s EXCEPT !.TTL_binary_bits = @ + 1]

binary_bit_abort_long(s, on_time) ==
    IF on_time > BINARY_BIT_PULSE_THRESHOLD * 2
    THEN [s EXCEPT !.TTL_mode = "Normal"]
    ELSE IF BINARY_BIT_PULSE_THRESHOLD < on_time
    THEN [s EXCEPT !.TTL_binary_bits = @ + 1,
                   !.TTL_checksum = 1 - @,
                   !.TTL_tmp_ID = @ * 2 + 1]
    ELSE [s EXCEPT !.TTL_binary_bits = @ + 1,
                   !.TTL_tmp_ID = @ * 2]

\* GPIO_falling_edge, the branch of TTL_type.Binary: one bit of the ID
binary_bit(s, on_time) ==
    IF BINARY_BIT_PULSE_THRESHOLD < on_time
    THEN [s EXCEPT !.TTL_binary_bits = @ + 1,
                   !.TTL_checksum = 1 - @,
                   !.TTL_tmp_ID = @ * 2 + 1]
    ELSE [s EXCEPT !.TTL_binary_bits = @ + 1,
                   !.TTL_tmp_ID = @ * 2]

checksum_pulse_unchecked(s, on_time) ==
    [s EXCEPT !.current_animal_ID = str(s.TTL_tmp_ID), !.TTL_mode = "Normal"]

checksum_pulse_stops(s, on_time) ==
    [s EXCEPT !.current_animal_ID =
                  IF s.TTL_checksum =
                         (IF on_time < BINARY_BIT_PULSE_THRESHOLD THEN 0 ELSE 1)
                  THEN str(s.TTL_tmp_ID) ELSE ID_ChecksumFail,
              !.TTL_mode = "Normal",
              !.pending = "ForceStop"]

\* GPIO_falling_edge, the branch of TTL_type.Checksum: the parity pulse
checksum_pulse(s, on_time) ==
    IF on_time >= BINARY_BIT_PULSE_THRESHOLD * 3
    THEN [s EXCEPT !.current_animal_ID = ID_ChecksumFail,
                   !.TTL_mode = "Normal"]
    ELSE LET checksum ==
                 IF on_time < BINARY_BIT_PULSE_THRESHOLD THEN 0 ELSE 1
         IN  [s EXCEPT !.current_animal_ID =
                           IF s.TTL_checksum = checksum
                           THEN str(s.TTL_tmp_ID)
                           ELSE ID_ChecksumFail,
                       !.TTL_mode = "Normal"]

GPIO_falling_edge_keeps_bits(s, t, dbg, disk) ==
    LET s1 == [s EXCEPT !.most_recent_gpio_falling_edge_time = t,
                        !.GPIO_active = 0]
        on_time == t - s.most_recent_gpio_rising_edge_time
    IN  IF s.most_recent_gpio_rising_edge_time < 0 THEN s1
        ELSE IF on_time < DEBOUNCE THEN s1
        ELSE IF s1.TTL_mode = "Normal"
        THEN IF on_time < 200
             THEN handle_GPIO([s1 EXCEPT !.num_consec_TTLs = @ + 1], t, disk)
             ELSE IF on_time < 400
             THEN IF ~s1.IsRecording
                  THEN [s1 EXCEPT !.TTL_mode = "Binary",
                                  !.current_animal_ID = ID_Pending,
                                  !.num_consec_TTLs = 0]
                  ELSE handle_GPIO([s1 EXCEPT !.num_consec_TTLs = @ + 1],
                                   t, disk)
             ELSE IF 2400 < on_time /\ on_time < 2600 /\ dbg
             THEN [s1 EXCEPT !.TTL_mode = "Debug", !.TTL_debug_count = 0]
             ELSE s1
        ELSE IF s1.TTL_mode = "Checksum" THEN checksum_pulse(s1, on_time)
        ELSE IF s1.TTL_mode = "Binary" THEN binary_bit(s1, on_time)
        ELSE \* Debug
             IF on_time > 1000
             THEN [s1 EXCEPT !.TTL_mode = "Normal"]
             ELSE [s1 EXCEPT !.TTL_debug_count = @ + 1]

\* CamObj.GPIO_falling_edge(t); dbg is the DEBUG flag
GPIO_falling_edge(s, t, dbg, disk) ==
    LET s1 == [s EXCEPT !.most_recent_gpio_falling_edge_time = t,
                        !.GPIO_active = 0]
        on_time == t - s.most_recent_gpio_rising_edge_time
    IN  IF s.most_recent_gpio_rising_edge_time < 0 THEN s1
        ELSE IF on_time < DEBOUNCE THEN s1
        ELSE IF s1.TTL_mode = "Normal"
        THEN IF on_time < 200
             THEN handle_GPIO([s1 EXCEPT !.num_consec_TTLs = @ + 1], t, disk)
             ELSE IF on_time < 400
             THEN IF ~s1.IsRecording
                  THEN [s1 EXCEPT !.TTL_mode = "Binary",
                                  !.current_animal_ID = ID_Pending,
                                  !.TTL_tmp_ID = 0,
                                  !.TTL_binary_bits = 0,
                                  !.TTL_checksum = 0,
                                  !.num_consec_TTLs = 0]
                  ELSE handle_GPIO([s1 EXCEPT !.num_consec_TTLs = @ + 1],
                                   t, disk)
             ELSE IF 2400 < on_time /\ on_time < 2600 /\ dbg
             THEN [s1 EXCEPT !.TTL_mode = "Debug", !.TTL_debug_count = 0]
             ELSE s1
        ELSE IF s1.TTL_mode = "Checksum" THEN checksum_pulse(s1, on_time)
        ELSE IF s1.TTL_mode = "Binary" THEN binary_bit(s1, on_time)
        ELSE \* Debug
             IF on_time > 1000
             THEN [s1 EXCEPT !.TTL_mode = "Normal"]
             ELSE [s1 EXCEPT !.TTL_debug_count = @ + 1]

delayed_start_unchecked(s, t, disk) == start_record(s, ID_None, t, disk)

delayed_start_at_least(s, t, disk) ==
    IF s.num_consec_TTLs >= NUM_TTL_PULSES_TO_START_SESSION THEN s
    ELSE start_record(s, ID_None, t, disk)

delayed_start_unless_exact(s, t, disk) ==
    IF s.num_consec_TTLs # NUM_TTL_PULSES_TO_START_SESSION THEN s
    ELSE start_record(s, ID_None, t, disk)

\* CamObj.delayed_start, from the moment its sleep ends (clock t)
delayed_start(s, t, disk) ==
    IF s.num_consec_TTLs > NUM_TTL_PULSES_TO_START_SESSION THEN s
    ELSE start_record(s, ID_None, t, disk)

-----------------------------------------------------------------------------
(* Frame pipeline                                                          *)

count_interval_floor(native_fps, record_fps) == native_fps \div record_fps

\* math.ceil(native_fps / RECORD_FRAME_RATE) for positive integer rates
count_interval(native_fps, record_fps) ==
    (native_fps + record_fps - 1) \div record_fps

\* the time one cam.read() blocks: one native frame period
FramePeriod(native_fps) == 1000 \div native_fps

\* CamObj.release
release(s) == [s EXCEPT !.status = FALSE, !.cam = "None"]

count_frame_gap_as_dropped(s, gap) ==
    [s EXCEPT !.frames_received = @ + gap,
              !.dropped_recording_frames = IF gap > 1 THEN @ + gap ELSE @,
              !.frames_recorded = @ + 1]

\* process_one_frame, the counters of a frame that belongs to the session
count_frame(s, gap) ==
    [s EXCEPT !.frames_received = @ + gap,
              !.dropped_recording_frames =
                  IF gap > 1 THEN @ + (gap - 1) ELSE @,
              !.frames_recorded = @ + 1]

\* process_one_frame, the two sink writes of a recorded frame
write_frame(s, frame, time_elapsed, disk) ==
    IF s.fid # "None" /\ ~disk
    THEN stop_recording_now(s)           \* fid.write raised
    ELSE LET s1 == IF s.fid # "None"
                   THEN [s EXCEPT !.file_frames =
                            Append(@, <<s.frames_received, time_elapsed>>)]
                   ELSE s
         IN  IF s1.Writer = "None" THEN s1
             ELSE IF s1.Writer = "Unopened" THEN s1  \* write() does nothing
             ELSE IF ~disk THEN stop_recording_now(s1)   \* Writer.write raised
             ELSE [s1 EXCEPT !.file_video = Append(@, frame)]

\* process_one_frame, the pending actions applied before the frame
apply_pending_with_grace(s, timestamp, t, disk) ==
    LET s1 == IF s.pending = "ForceStop"
              THEN [s EXCEPT !.pending = "Nothing",
                             !.pending_stop_record_time = t]
              ELSE s
    IN  IF s1.IsRecording /\ 0 < s1.pending_stop_record_time
                          /\ s1.pending_stop_record_time < timestamp
        THEN stop_recording_now([s1 EXCEPT !.pending_stop_record_time = 0])
        ELSE IF s1.pending = "StartRecord"
        THEN start_record([s1 EXCEPT !.pending = "Nothing"], ID_None, t, disk)
        ELSE s1

apply_pending(s, timestamp, t, disk) ==
    LET s1 == IF s.pending = "ForceStop"
              THEN stop_recording_now([s EXCEPT !.pending = "Nothing"])
              ELSE s
    IN  IF s1.raised THEN s1
        ELSE IF s1.IsRecording /\ 0 < s1.pending_stop_record_time
                          /\ s1.pending_stop_record_time < timestamp
        THEN stop_recording_now([s1 EXCEPT !.pending_stop_record_time = 0])
        ELSE IF s1.pending = "StartRecord"
        THEN start_record([s1 EXCEPT !.pending = "Nothing"], ID_None, t, disk)
        ELSE s1

process_one_frame_any_time(s, frame, timestamp, gap, t, disk) ==
    LET s2 == apply_pending(lock_acquire(s), timestamp, t, disk)
        time_elapsed == timestamp - s2.start_recording_time
    IN  lock_release(
          IF s2.raised THEN s2
          ELSE IF s2.cam = "None" THEN s2
          ELSE IF s2.IsRecording
          THEN write_frame(count_frame(s2, gap), frame, time_elapsed, disk)
          ELSE s2)

\* CamObj.process_one_frame(frame, timestamp, TTL_on, gap) run at clock t
process_one_frame(s, frame, timestamp, gap, t, disk) ==
    LET s2 == apply_pending(lock_acquire(s), timestamp, t, disk)
        time_elapsed == timestamp - s2.start_recording_time
    IN  lock_release(
          IF s2.raised THEN s2
          ELSE IF s2.cam = "None" THEN s2
          ELSE IF s2.IsRecording /\ time_elapsed >= 0
          THEN write_frame(count_frame(s2, gap), frame, time_elapsed, disk)
          ELSE s2)

\* The state of the producer's locals when its loop is first entered
ProducerInit(native_fps, record_fps) ==
    [ pc |-> "loop",
      count_cycle |-> 0, count_sent_frames |-> 0,
      count_interval |-> count_interval(native_fps, record_fps),
      nextRetry |-> 0,
      frame |-> 0, frame_time |-> 0, TTL_on |-> 0,
      \* the last pass of the loop has acquired self.lock
      lock_used |-> FALSE ]

\* The consumer's locals when its loop is first entered (t: the timestamp of
\* the tuple last taken from the queue, 0 before the first)
ConsumerInit == [ pc |-> "loop", prev_frames_received |-> 0, t |-> 0 ]

-----------------------------------------------------------------------------
(* Actions                                                                 *)

\* a handler has returned s: none of the `with` blocks it entered is still
\* running
Returned(s) == [s EXCEPT !.lock_used = FALSE]

Started(s, s2) == IF ~s.IsRecording /\ s2.IsRecording THEN 1 ELSE 0

\* self becomes s2; the history counts a session that s2 has started
Becomes(s2) ==
    /\ self' = Returned(s2)
    /\ hist' = [hist EXCEPT !.sessions = @ + Started(self, s2)]

\* read_camera_continuous: cam.read() returns a frame
ProducerReadOK ==
    /\ prod.pc = "loop" /\ self.pending # "Exiting" /\ prod.nextRetry = 0
    /\ self.cam = "Open" /\ env.camPlugged
    /\ env.reads < hist.readLimit
    /\ env' = [env EXCEPT !.reads = @ + 1,
                          !.now = @ + FramePeriod(env.native_fps)]
    /\ LET forward == prod.count_cycle + 1 = prod.count_interval
       IN  prod' = [prod EXCEPT
                !.frame = env'.reads,
                !.frame_time = env'.now,
                !.TTL_on = self.GPIO_active,
                !.count_cycle = IF forward THEN 0 ELSE @ + 1,
                !.count_sent_frames = IF forward THEN @ + 1 ELSE @,
                !.pc = IF forward THEN "check" ELSE "loop",
                !.lock_used = FALSE]
    /\ self' = [self EXCEPT !.status = TRUE]
    /\ UNCHANGED <<cons, script, hist>>

\* read_camera_continuous: cam.read() fails
ProducerReadFail ==
    /\ prod.pc = "loop" /\ self.pending # "Exiting" /\ prod.nextRetry = 0
    /\ ~(self.cam = "Open" /\ env.camPlugged)
    /\ self' = [self EXCEPT !.status = FALSE]
    /\ prod' = [prod EXCEPT !.pc = "lost", !.lock_used = FALSE]
    /\ UNCHANGED <<cons, env, script, hist>>

\* read_camera_continuous: the `if not self.status` block
ProducerLost ==
    /\ prod.pc = "lost"
    /\ IF self.pending = "Exiting"
       THEN /\ prod' = [prod EXCEPT !.pc = "exit"]
            /\ UNCHANGED self
       ELSE LET s2 == release(IF self.IsRecording
                              THEN stop_record(self, FALSE, env.now)
                              ELSE self)
            IN  /\ self' = Returned(s2)
                /\ prod' = [prod EXCEPT
                             !.nextRetry = env.now + RETRY_INTERVAL,
                             !.pc = "loop",
                             !.lock_used = s2.lock_used]
    /\ UNCHANGED <<cons, env, script, hist>>

\* read_camera_continuous: the `if nextRetry > time.time()` branch
ProducerRetry ==
    /\ prod.pc = "loop" /\ self.pending # "Exiting"
    /\ prod.nextRetry > 0 /\ prod.nextRetry > env.now
    /\ IF env.camPlugged
       THEN /\ self' = [self EXCEPT !.cam = "Open", !.status = TRUE]
            /\ prod' = [prod EXCEPT !.nextRetry = 0, !.lock_used = FALSE]
       ELSE /\ prod' = [prod EXCEPT !.nextRetry = env.now + RETRY_INTERVAL,
                                    !.lock_used = FALSE]
            /\ UNCHANGED self
    /\ UNCHANGED <<cons, env, script, hist>>

\* read_camera_continuous: the retry when cv2.VideoCapture raises: setup_cam
\* catches the exception and returns (None, None), and `tmp.isOpened()`
\* raises AttributeError, which nothing in the thread catches
ProducerRetryError ==
    /\ prod.pc = "loop" /\ self.pending # "Exiting"
    /\ prod.nextRetry > 0 /\ prod.nextRetry > env.now
    /\ ~env.camPlugged
    /\ prod' = [prod EXCEPT !.pc = "crashed", !.lock_used = FALSE]
    /\ UNCHANGED <<self, cons, env, script, hist>>

\* read_camera_continuous: the `else: time.sleep(1)` branch of the retry
ProducerRetryWait ==
    /\ prod.pc = "loop" /\ self.pending # "Exiting"
    /\ prod.nextRetry > 0 /\ prod.nextRetry <= env.now
    /\ env' = [env EXCEPT !.now = @ + 1000]
    /\ prod' = [prod EXCEPT !.lock_used = FALSE]
    /\ UNCHANGED <<self, cons, script, hist>>

queue_unchecked(s) == FALSE

\* read_camera_continuous: the test `self.q.qsize() > 250`
queue_full(s) == Len(s.q) > QSIZE_LIMIT

\* read_camera_continuous: `if self.q.qsize() > 250`, and its first branch
\* (the frame is dropped; history: its number and the queue size found)
ProducerCheck ==
    /\ prod.pc = "check"
    /\ IF queue_full(self)
       THEN /\ prod' = [prod EXCEPT !.pc = "loop", !.lock_used = FALSE]
            /\ hist' = [hist EXCEPT !.discarded =
                          @ \cup {<<prod.count_sent_frames, Len(self.q)>>}]
       ELSE /\ prod' = [prod EXCEPT !.pc = "put", !.lock_used = FALSE]
            /\ UNCHANGED hist
    /\ UNCHANGED <<self, cons, env, script>>

ProducerPut_front ==
    /\ prod.pc = "put"
    /\ self' = [self EXCEPT !.q = <<<<prod.frame, prod.frame_time, prod.TTL_on,
                                      prod.count_sent_frames>>>> \o @]
    /\ prod' = [prod EXCEPT !.pc = "loop", !.lock_used = FALSE]
    /\ UNCHANGED <<cons, env, script, hist>>

\* read_camera_continuous: self.q.put((frame, frame_time, TTL_on, count))
ProducerPut ==
    /\ prod.pc = "put"
    /\ self' = [self EXCEPT !.q = Append(@,
                   <<prod.frame, prod.frame_time, prod.TTL_on,
                     prod.count_sent_frames>>)]
    /\ prod' = [prod EXCEPT !.pc = "loop", !.lock_used = FALSE]
    /\ UNCHANGED <<cons, env, script, hist>>

\* consumer_thread: one turn of the loop that gets a frame from the queue
\* (an exception that leaves process_one_frame ends the thread)
ConsumerStep ==
    /\ cons.pc = "loop"
    /\ self.pending # "Exiting"
    /\ self.q # <<>>
    /\ LET f == Head(self.q)
           gap == f[4] - cons.prev_frames_received
           lag1 == env.now - f[2]
           s0 == [self EXCEPT !.q = Tail(@)]
           s2 == IF ~self.IsRecording /\ lag1 > LAG_LIMIT
                 THEN s0
                 ELSE process_one_frame(s0, f[1], f[2], gap,
                                        env.now, env.diskOK)
       IN  /\ cons' = [cons EXCEPT !.prev_frames_received = f[4], !.t = f[2],
                                   !.pc = IF s2.raised THEN "crashed" ELSE @]
           /\ Becomes(s2)
    /\ UNCHANGED <<prod, env, script>>

\* the operator's typed animal ID
ID_Typed == [tag |-> "typed", digits |-> <<>>]

\* RECORDER.update_image: cam_obj.start_record(self.pendingActionID)
OperatorStart ==
    /\ Becomes(start_record(self, ID_Typed, env.now, env.diskOK))
    /\ UNCHANGED <<prod, cons, env, script>>

\* RECORDER.show_stop_dialog / update_image: cam_obj.stop_record([True])
OperatorStop(force) ==
    /\ Becomes(stop_record(self, force, env.now))
    /\ UNCHANGED <<prod, cons, env, script>>

\* the camera is unplugged / plugged back in
Unplug ==
    /\ env.camPlugged
    /\ env' = [env EXCEPT !.camPlugged = FALSE]
    /\ UNCHANGED <<self, prod, cons, script, hist>>

Replug ==
    /\ ~env.camPlugged
    /\ env' = [env EXCEPT !.camPlugged = TRUE]
    /\ UNCHANGED <<self, prod, cons, script, hist>>

\* the data folder stops accepting writes (e.g. the USB drive is pulled)
DiskFault ==
    /\ env.diskOK
    /\ env' = [env EXCEPT !.diskOK = FALSE]
    /\ UNCHANGED <<self, prod, cons, script, hist>>

\* the drive that holds the data folder is removed: writes fail and the
\* session's files are no longer found
DriveRemoved ==
    /\ env.diskOK
    /\ env' = [env EXCEPT !.diskOK = FALSE]
    /\ self' = [self EXCEPT !.video_file_exists = FALSE]
    /\ UNCHANGED <<prod, cons, script, hist>>

\* the main thread's next step of CamObj.close(): the forced stop of an
\* active recording, then (once IsRecording is False) the exiting flag, then
\* (the threads having left their loops) the release of the camera
CloseStep ==
    /\ self.close_pc # "closed"
    /\ self.close_pc = "wait" => ~self.IsRecording
    /\ Becomes(IF self.close_pc = "none" /\ self.IsRecording
               THEN [stop_record(self, TRUE, env.now) EXCEPT
                         !.close_pc = "wait"]
               ELSE IF self.close_pc \in {"none", "wait"}
               THEN [self EXCEPT !.pending = "Exiting", !.close_pc = "join"]
               ELSE [self EXCEPT !.cam = "None", !.status = -1,
                                 !.close_pc = "closed"])
    /\ UNCHANGED <<prod, cons, env, script>>

Min(S) == CHOOSE x \in S : \A y \in S : x <= y
Max(S) == CHOOSE x \in S : \A y \in S : x >= y

\* what the pulse decoder holds between pulses
Decoder(s) ==
    [ TTL_mode |-> s.TTL_mode,
      num_consec_TTLs |-> s.num_consec_TTLs,
      most_recent_gpio_rising_edge_time |-> s.most_recent_gpio_rising_edge_time,
      most_recent_gpio_falling_edge_time |->
          s.most_recent_gpio_falling_edge_time,
      current_animal_ID |-> s.current_animal_ID,
      TTL_tmp_ID |-> s.TTL_tmp_ID,
      TTL_binary_bits |-> s.TTL_binary_bits ]

\* no pulse is under way
NoPulse == [ TTL_mode |-> "NoPulse" ]

\* GPIO_thread sees the line go high, g ms after the previous edge, and
\* calls GPIO_rising_edge
Rise(g) ==
    /\ env.level = 0
    /\ LET t == env.lastEdge + g
       IN  /\ t >= env.now
           /\ \A w \in self.delayed_threads : w >= t
           /\ env' = [env EXCEPT !.now = t, !.lastEdge = t, !.level = 1,
                                 !.edges = @ + 1,
                                 !.before_pulse = Decoder(self)]
           /\ Becomes(GPIO_rising_edge(self, t))
    /\ UNCHANGED <<prod, cons>>

\* GPIO_thread sees the line go low, g ms after the previous edge, and calls
\* GPIO_falling_edge
Fall(g) ==
    /\ env.level = 1
    /\ LET t == env.lastEdge + g
       IN  /\ t >= env.now
           /\ \A w \in self.delayed_threads : w >= t
           /\ env' = [env EXCEPT !.now = t, !.lastEdge = t, !.level = 0,
                                 !.edges = @ + 1,
                                 !.before_pulse = NoPulse]
           /\ Becomes(GPIO_falling_edge(self, t, env.DEBUG, env.diskOK))
    /\ UNCHANGED <<prod, cons>>

\* an edge with an arbitrary timing
EdgeRise(g) == env.edges < MaxEdges /\ Rise(g) /\ UNCHANGED script

EdgeFall(g) == env.edges < MaxEdges /\ Fall(g) /\ UNCHANGED script

\* a delayed_start thread wakes from its sleep
DelayedStart ==
    /\ self.delayed_threads # {}
    /\ LET w == Min(self.delayed_threads)
           t == IF w > env.now THEN w ELSE env.now
       IN  /\ env' = [env EXCEPT !.now = t]
           /\ Becomes(delayed_start(
                  [self EXCEPT !.delayed_threads = @ \ {w}], t, env.diskOK))
    /\ UNCHANGED <<prod, cons, script>>

-----------------------------------------------------------------------------
(* Output file naming of the cameras of one process                        *)

\* get_filename_prefix plus the suffix of start_record: the date and the
\* data folder are the same for all boxes
filename_video(box_id, animal_ID, suffix_count) ==
    <<box_id, animal_ID.tag, suffix_count>>

RLock_not_taken(owner, b) == TRUE

\* threading.RLock: free, or held by the thread that asks for it
RLock_free(owner, b) == owner \in {0, b}

\* start_record is called on box b and reaches `with self.global_lock:`
StartRecordCalled(b, animal_ID) ==
    /\ env.starting[b].pc = "idle"
    /\ env' = [env EXCEPT !.starting[b] =
                   [@ EXCEPT !.pc = "wait", !.animal_ID = animal_ID]]
    /\ UNCHANGED <<self, prod, cons, script, hist>>

\* box b acquires global_lock
FilenameLock(b) ==
    /\ env.starting[b].pc = "wait"
    /\ RLock_free(env.global_lock, b)
    /\ env' = [env EXCEPT !.global_lock = b, !.starting[b].pc = "search"]
    /\ UNCHANGED <<self, prod, cons, script, hist>>

\* one pass of `while True:`: the name with the current suffix, and
\* os.path.isfile of it
FilenameSearch(b) ==
    /\ env.starting[b].pc = "search"
    /\ LET st == env.starting[b]
           name == filename_video(b, st.animal_ID, st.suffix_count)
       IN  env' = [env EXCEPT !.starting[b] =
                       IF name \notin env.files
                       THEN [st EXCEPT !.filename_video = name,
                                       !.pc = "create"]
                       ELSE [st EXCEPT !.filename_video = name,
                                       !.suffix_count = @ + 1]]
    /\ UNCHANGED <<self, prod, cons, script, hist>>

\* cv2.VideoWriter(self.filename_video, ...), which creates the file or
\* fails without raising, and the end of the `with` block
FilenameCreate(b, created) ==
    /\ env.starting[b].pc = "create"
    /\ env' = [env EXCEPT
                   !.files = IF created
                             THEN @ \cup {env.starting[b].filename_video}
                             ELSE @,
                   !.global_lock = IF @ = b THEN 0 ELSE @,
                   !.starting[b].pc = "named"]
    /\ UNCHANGED <<self, prod, cons, script, hist>>

-----------------------------------------------------------------------------
(* The shared-memory frame transport (extra/shared_arrays.py)              *)

check_full_never(r, arrived) ==
    [r EXCEPT !.read_queue = SubSeq(@, arrived + 1, Len(@)),
              !.last_item = IF arrived = 0 THEN @
                            ELSE r.read_queue[arrived],
              !.Full = FALSE]

\* ArrayQueue.check_full: takes the indices that have arrived on
\* read_queue, keeps the last one, and raises Full when the write position
\* has come round to it
check_full(r, arrived) ==
    LET last_item == IF arrived = 0 THEN r.last_item
                     ELSE r.read_queue[arrived]
    IN  [r EXCEPT !.read_queue = SubSeq(@, arrived + 1, Len(@)),
                  !.last_item = last_item,
                  !.Full = (r.idx_item = last_item)]

\* ArrayView.fits, for an array
fits(r, element) == element.el_shape = r.el_shape

\* TimestampedArrayQueue.put with ArrayView.push, at clock t; element is the
\* frame (its shape and its pixels)
put(r, element, TTL_on, t, arrived) ==
    LET r1 == IF ~r.has_view \/ ~fits(r, element)
              THEN [r EXCEPT !.has_view = TRUE,
                             !.el_shape = element.el_shape,
                             !.idx_item = 0,
                             !.Full = FALSE]
              ELSE check_full(r, arrived)
    IN  IF r1.Full THEN [r1 EXCEPT !.puts = @ + 1]
        ELSE [r1 EXCEPT !.view[r1.idx_item] = element.data,
                        !.idx_item = (@ + 1) % n_items,
                        !.queue = Append(@, <<t, TTL_on, r1.idx_item>>),
                        !.pushed = Append(@, <<t, element.data, TTL_on>>),
                        !.puts = @ + 1]

get_newest(r) ==
    LET item == r.queue[Len(r.queue)]
    IN  [r EXCEPT !.queue = SubSeq(@, 1, Len(@) - 1),
                  !.read_queue = Append(@, item[3]),
                  !.got = Append(@, <<item[1], r.view[item[3]], item[2]>>)]

\* TimestampedArrayQueue.get with ArrayView.pop: the index goes back on
\* read_queue, the caller gets the timestamp, the slot as it is when get
\* returns, and the pulse flag
get(r) ==
    LET item == Head(r.queue)
    IN  [r EXCEPT !.queue = Tail(@),
                  !.read_queue = Append(@, item[3]),
                  !.got = Append(@, <<item[1], r.view[item[3]], item[2]>>)]

\* the producer process offers the next frame, of shape el_shape, a
\* millisecond after the one before; `arrived` of the indices the consumer
\* has sent back have come through the pipe by now
RingPut(arrived, el_shape, TTL_on) ==
    /\ env.ring.puts < MaxPuts
    /\ arrived <= Len(env.ring.read_queue)
    /\ env' = [env EXCEPT
                 !.now = @ + 1,
                 !.ring = put(@, [el_shape |-> el_shape,
                                  data |-> env.ring.puts + 1],
                              TTL_on, env.now, arrived)]
    /\ UNCHANGED <<self, prod, cons, script, hist>>

\* the consumer takes a frame
RingGet ==
    /\ env.ring.queue # <<>>
    /\ env' = [env EXCEPT !.ring = get(@)]
    /\ UNCHANGED <<self, prod, cons, script, hist>>

-----------------------------------------------------------------------------
(* Specifications                                                          *)

EnvInit(level, dbg, native_fps, record_fps) ==
    [ now |-> T0, level |-> level, lastEdge |-> T0, edges |-> 0,
      camPlugged |-> TRUE, diskOK |-> TRUE, reads |-> 0,
      DEBUG |-> dbg, native_fps |-> native_fps,
      RECORD_FRAME_RATE |-> record_fps,
      \* history: the decoder as it was when the line last went high, while
      \* the line is high
      before_pulse |-> NoPulse,
      \* shared by the cameras: the class attribute CamObj.global_lock (the
      \* box that holds it, 0 if free), the video files in the data folder,
      \* and where each box is in the file naming of its start_record
      global_lock |-> 0,
      files |-> {},
      starting |-> [b \in BoxIds |-> NotStarting],
      \* the TimestampedArrayQueue between a producer process and the
      \* consumer
      ring |-> ArrayQueueInit ]

\* readLimit: the run ends when the camera has delivered that many frames
HistInit(readLimit) ==
    [ sessions |-> 0, discarded |-> {}, readLimit |-> readLimit ]

\* The queue after the producer has forwarded frames 1..n (every frame,
\* count_interval = 1) while the consumer was held up, e.g. by a slow
\* Writer.write: n frames, one frame period apart.
Backlog(n, period) == [i \in 1..n |-> <<i, T0 + i * period, 0, i>>]

\* what the signal source has put on the GPIO line: n pulses to send, sent
\* pulses completed, the ID bits sent so far and whether one of them is not
\* the identifier's bit
NoScript == [n |-> 0, sent |-> 0, value |-> 0, corrupted |-> FALSE]

\* The state after construction, or that state n forwarded frames later
\* with the consumer not having run
Initial(n, more, level, dbg, native_fps, record_fps, scr) ==
    /\ self = [CamObjInit(T0) EXCEPT !.q = Backlog(n, FramePeriod(native_fps))]
    /\ prod = [ProducerInit(native_fps, record_fps) EXCEPT
                   !.count_sent_frames = n,
                   !.frame = n,
                   !.frame_time = IF n = 0 THEN 0
                                  ELSE T0 + n * FramePeriod(native_fps)]
    /\ cons = ConsumerInit
    /\ env = [EnvInit(level, dbg, native_fps, record_fps) EXCEPT
                  !.reads = n,
                  !.now = T0 + n * FramePeriod(native_fps)]
    /\ script = scr
    /\ hist = HistInit(n + more)

\* The pipeline: producer, queue, consumer, operator, camera and disk faults
Init == Initial(0, MaxReads, 0, FALSE, 30, 30, NoScript)

Next ==
    \/ ProducerReadOK
    \/ ProducerReadFail
    \/ ProducerLost
    \/ ProducerRetry
    \/ ProducerRetryError
    \/ ProducerCheck
    \/ ProducerPut
    \/ ConsumerStep
    \/ OperatorStart
    \/ \E force \in BOOLEAN : OperatorStop(force)
    \/ Unplug
    \/ Replug
    \/ DiskFault

Spec == Init /\ [][Next]_vars

\* The sinks: sessions started and stopped by the operator with the codec
\* installed or missing, the disk filling up or its drive being removed
InitSink ==
    \E codec \in {"installed", "missing"} :
        /\ self = [CamObjInit(T0) EXCEPT !.codec = codec]
        /\ prod = ProducerInit(30, 30)
        /\ cons = ConsumerInit
        /\ env = EnvInit(0, FALSE, 30, 30)
        /\ script = NoScript
        /\ hist = HistInit(MaxReads)

NextSink ==
    \/ ProducerReadOK
    \/ ProducerCheck
    \/ ProducerPut
    \/ ConsumerStep
    \/ OperatorStart
    \/ \E force \in BOOLEAN : OperatorStop(force)
    \/ DiskFault
    \/ DriveRemoved

SpecSink == InitSink /\ [][NextSink]_vars

\* The pipeline with the queue full at the start: the consumer has been held
\* up for QSIZE_LIMIT + 1 forwarded frames (SpecProducer reaches this state
\* from construction), so the producer discards frames
InitBacklog ==
    Initial(QSIZE_LIMIT + 1, MaxReads, 0, FALSE, 30, 30, NoScript)

NextBacklog ==
    \/ ProducerReadOK
    \/ ProducerCheck
    \/ ProducerPut
    \/ ConsumerStep
    \/ OperatorStart
    \/ OperatorStop(FALSE)

SpecBacklog == InitBacklog /\ [][NextBacklog]_vars

\* The producer and the consumer alone, long enough to fill the queue
InitProducer ==
    \E native_fps \in NativeRates, record_fps \in RecordRates :
        Initial(0, MaxProducerReads, 0, FALSE, native_fps, record_fps,
                NoScript)

NextProducer ==
    \/ ProducerReadOK
    \/ ProducerReadFail
    \/ ProducerLost
    \/ ProducerRetry
    \/ ProducerRetryError
    \/ ProducerCheck
    \/ ProducerPut
    \/ ConsumerStep
    \/ Unplug
    \/ Replug

SpecProducer == InitProducer /\ [][NextProducer]_vars

\* The decoder fed arbitrary edges
InitEdges ==
    \E level \in {0, 1}, dbg \in BOOLEAN :
        Initial(0, 0, level, dbg, 30, 30, NoScript)

NextEdges ==
    \/ \E g \in Durations : EdgeRise(g)
    \/ \E g \in Durations : EdgeFall(g)
    \/ DelayedStart
    \/ DiskFault

SpecEdges == InitEdges /\ [][NextEdges]_vars

\* One burst of script.n short pulses on an idle line, then silence
BurstRise ==
    /\ script.sent < script.n
    /\ \E g \in BurstGaps : Rise(g)
    /\ UNCHANGED script

BurstFall ==
    /\ \E w \in ShortWidths : Fall(w)
    /\ script' = [script EXCEPT !.sent = @ + 1]

\* the delayed_start thread wakes, unless the burst's next edge is due first
BurstDelayedStart ==
    /\ self.delayed_threads # {}
    /\ (script.sent < script.n \/ env.level = 1)
           => Min(self.delayed_threads)
                  <= env.lastEdge + Max(IF env.level = 1 THEN ShortWidths
                                        ELSE BurstGaps)
    /\ DelayedStart

InitBurst ==
    \E n \in 1..MaxBurst :
        Initial(0, 0, 0, FALSE, 30, 30, [NoScript EXCEPT !.n = n])

NextBurst ==
    \/ BurstRise
    \/ BurstFall
    \/ BurstDelayedStart

SpecBurst == InitBurst /\ [][NextBurst]_vars

\* One burst of short pulses on the line of a camera whose session the
\* operator starts before, during or after the burst
NextStopBurst ==
    \/ OperatorStart
    \/ BurstRise
    \/ BurstFall
    \/ BurstDelayedStart

SpecStopBurst == InitBurst /\ [][NextStopBurst]_vars

\* number of 1-bits of v, modulo 2
RECURSIVE Parity(_)
Parity(v) == IF v = 0 THEN 0 ELSE ((v % 2) + Parity(v \div 2)) % 2

PulseOfBit(b) == IF b = 0 THEN BIT0_PULSE ELSE BIT1_PULSE

\* One ID transmission on an idle line: pulse 1 is the start-of-ID pulse,
\* pulses 2 .. ID_BITS + 1 are the bits, most significant first, the last
\* pulse follows the long pause and carries the parity of the identifier
IDRise ==
    /\ script.sent < script.n
    /\ Rise(IF script.sent = ID_BITS + 1 THEN CHECKSUM_PAUSE
            ELSE INTER_BIT_PAUSE)
    /\ UNCHANGED script

IDFallStart ==
    /\ script.sent = 0
    /\ Fall(ID_START_PULSE)
    /\ script' = [script EXCEPT !.sent = 1]

\* bit b goes on the line; if flip, the identifier's bit was the other one
IDFallBit(b, flip) ==
    /\ script.sent \in 1..ID_BITS
    /\ flip => ~script.corrupted
    /\ Fall(PulseOfBit(b))
    /\ script' = [script EXCEPT !.sent = @ + 1,
                                !.value = @ * 2 + b,
                                !.corrupted = @ \/ flip]

\* the parity of the identifier, which a flipped bit has not changed
IDFallChecksum ==
    /\ script.sent = ID_BITS + 1
    /\ Fall(PulseOfBit(IF script.corrupted
                       THEN 1 - Parity(script.value)
                       ELSE Parity(script.value)))
    /\ script' = [script EXCEPT !.sent = @ + 1]

InitID == Initial(0, 0, 0, FALSE, 30, 30, [NoScript EXCEPT !.n = ID_BITS + 2])

NextID ==
    \/ IDRise
    \/ IDFallStart
    \/ \E b \in {0, 1} : IDFallBit(b, FALSE)
    \/ \E b \in {0, 1} : IDFallBit(b, TRUE)
    \/ IDFallChecksum

SpecID == InitID /\ [][NextID]_vars

\* The transmission of one identifier (bits 1010..., possibly one of them
\* flipped) while the operator starts a session at any moment
NextIDSession ==
    \/ IDRise
    \/ IDFallStart
    \/ IDFallBit(script.sent % 2, FALSE)
    \/ IDFallBit(script.sent % 2, TRUE)
    \/ IDFallChecksum
    \/ OperatorStart

SpecIDSession == InitID /\ [][NextIDSession]_vars

\* Two boxes start sessions at any moments, in a data folder that holds
\* video files of the day's earlier sessions
InitFilenames ==
    \E old \in SUBSET { filename_video(b, ID_None, k) :
                            b \in BoxIds, k \in 0..(MaxSuffix - 1) } :
        /\ self = CamObjInit(T0)
        /\ prod = ProducerInit(30, 30)
        /\ cons = ConsumerInit
        /\ env = [EnvInit(0, FALSE, 30, 30) EXCEPT !.files = old]
        /\ script = NoScript
        /\ hist = HistInit(0)

NextFilenames ==
    \/ \E b \in BoxIds, id \in {ID_None, ID_Typed} : StartRecordCalled(b, id)
    \/ \E b \in BoxIds : FilenameLock(b)
    \/ \E b \in BoxIds : FilenameSearch(b)
    \/ \E b \in BoxIds, created \in BOOLEAN : FilenameCreate(b, created)

SpecFilenames == InitFilenames /\ [][NextFilenames]_vars

\* The pipeline, with the program closing the camera at any moment
NextClose ==
    \/ Next
    \/ CloseStep

SpecClose == Init /\ [][NextClose]_vars

\* A burst of short pulses, with the program closing the camera at any
\* moment
NextCloseBurst ==
    \/ NextBurst
    \/ CloseStep

SpecCloseBurst == InitBurst /\ [][NextCloseBurst]_vars

\* A producer and a consumer on the two ends of the ring buffer
NextRing ==
    \/ \E arrived \in 0..n_items, TTL_on \in BOOLEAN :
           RingPut(arrived, 1, TTL_on)
    \/ RingGet

SpecRing == Init /\ [][NextRing]_vars

\* The same with frames of two shapes
NextRingShapes ==
    \/ \E arrived \in 0..n_items, el_shape \in ElShapes :
           RingPut(arrived, el_shape, FALSE)
    \/ RingGet

SpecRingShapes == Init /\ [][NextRingShapes]_vars

-----------------------------------------------------------------------------
(* Properties                                                              *)

\* sequence numbers of the frames in the queue / discarded by the producer
QueuedSeqs == { self.q[i][4] : i \in 1..Len(self.q) }
DiscardedSeqs == { d[1] : d \in hist.discarded }

\* the consumer takes the head of the queue in this step
ConsumerDelivers == self.q # <<>> /\ self'.q = Tail(self.q)

\* C1 (as claimed): with a non-forced stop pending at time T on a recording
\* camera, a delivered frame captured after the session's start and not later
\* than T
\* is written to the video file and the frame log, and a delivered frame
\* captured later than T is not written and finalizes the session.  (Stated
\* for the runs in which the disk works and no forced stop is pending.)
C1_StopKeepsQueuedFrames ==
    [][ ( /\ ConsumerDelivers
          /\ self.IsRecording
          /\ self.pending = "Nothing"
          /\ env.diskOK
          /\ self.pending_stop_record_time > 0 )
        => LET f == Head(self.q)
               T == self.pending_stop_record_time
           IN  /\ ( self.start_recording_time < f[2] /\ f[2] <= T )
                   => /\ self'.file_video = Append(self.file_video, f[1])
                      /\ Len(self'.file_frames) = Len(self.file_frames) + 1
               /\ ( f[2] > T )
                   => /\ ~self'.IsRecording
                      /\ self'.file_video = self.file_video
                      /\ self'.file_frames = self.file_frames ]_vars

\* the burst is over and the delayed_start thread it set off has run
BurstSettled ==
    /\ script.sent = script.n
    /\ self.delayed_threads = {}

\* C2: a burst of exactly N_start short pulses on an idle camera, followed by
\* silence, starts exactly one session: none before the settle window has
\* expired, and after it the camera is recording with the video, frame log and
\* pulse log sinks of one session open.
C2_DoublePulseStartsOnce ==
    script.n = NUM_TTL_PULSES_TO_START_SESSION =>
        IF BurstSettled
        THEN /\ hist.sessions = 1
             /\ self.IsRecording
             /\ self.Writer = "Open" /\ self.fid = "Open"
             /\ self.fid_TTL = "Open"
        ELSE hist.sessions = 0 /\ ~self.IsRecording

\* C2 witness: the two pulses are over, the settle window has expired
C2_Witness ==
    /\ script.n = NUM_TTL_PULSES_TO_START_SESSION
    /\ BurstSettled
    /\ self.IsRecording
    /\ env.now >= env.lastEdge + wait_interval_sec

\* C3: a burst of N_start short pulses followed by one more short pulse of
\* the same burst starts no session: the camera is never recording, also not
\* after the settle window has expired.
C3_TriplePulseStartsNothing ==
    script.n = NUM_TTL_PULSES_TO_START_SESSION + 1 =>
        /\ hist.sessions = 0
        /\ ~self.IsRecording
        /\ self.Writer = "None" /\ self.fid = "None" /\ self.fid_TTL = "None"

\* C3 witness: three pulses are over and the delayed_start thread has run
C3_Witness ==
    /\ script.n = NUM_TTL_PULSES_TO_START_SESSION + 1
    /\ BurstSettled
    /\ self.num_consec_TTLs = NUM_TTL_PULSES_TO_START_SESSION + 1
    /\ ~self.IsRecording

\* the whole transmission, checksum pulse included, is over
IDSent == script.sent = ID_BITS + 2

\* C6: after a correctly encoded transmission of the identifier V the
\* identifier is the decimal string of V and the decoder is in Normal mode.
C6_IDRoundTrip ==
    (IDSent /\ ~script.corrupted) =>
        /\ self.current_animal_ID = str(script.value)
        /\ self.TTL_mode = "Normal"

\* C6 witness: the identifier 43981 (1010101111001101) has been received
C6_Witness ==
    /\ IDSent /\ ~script.corrupted
    /\ script.value = 43981
    /\ self.current_animal_ID.digits = <<4, 3, 9, 8, 1>>

\* C7: after a transmission in which exactly one data bit went out with the
\* other bit's width, the checksum pulse unchanged, the identifier is the
\* checksum-failure mark, not the decoded value, and the decoder is in Normal
\* mode.
C7_CorruptedBitFails ==
    (IDSent /\ script.corrupted) =>
        /\ self.current_animal_ID = ID_ChecksumFail
        /\ self.current_animal_ID # str(self.TTL_tmp_ID)
        /\ self.TTL_mode = "Normal"

\* C7 witness: all 16 bits were decoded, one of them flipped
C7_Witness ==
    /\ IDSent /\ script.corrupted
    /\ self.TTL_binary_bits = ID_BITS
    /\ self.TTL_tmp_ID = script.value
    /\ self.current_animal_ID = ID_ChecksumFail

\* C8: after any sequence of edges the decoder's mode is one of Normal,
\* Binary, Checksum and Debug, and no edge handler has raised.
C8_ModeTotal ==
    /\ self.TTL_mode \in TTL_type
    /\ ~self.raised

\* C8 witness: a pulse arrived during a session whose pulse log cannot be
\* written (the write failed inside the handler)
C8_Witness ==
    /\ self.IsRecording /\ ~env.diskOK
    /\ self.TTL_num > Len(self.file_TTLs)
    /\ self.TTL_mode = "Normal"

\* C4 (as claimed): stop_record() on a camera that is not recording changes
\* nothing of the camera's state.
C4_StopWhenIdleIsNoOp ==
    [][ ( /\ ~self.IsRecording
          /\ self' = Returned(stop_record(self, FALSE, env.now))
          /\ UNCHANGED <<prod, cons, env, script>> )
        => self' = self ]_vars

\* C5: while recording, frames_recorded <= frames_received and
\* dropped_recording_frames + frames_recorded = frames_received.
C5_FrameCounters ==
    self.IsRecording =>
        /\ self.frames_recorded <= self.frames_received
        /\ self.dropped_recording_frames + self.frames_recorded
               = self.frames_received

\* C5 witness: a session that has recorded frames and counted dropped ones
C5_Witness ==
    /\ self.IsRecording
    /\ self.frames_recorded > 1
    /\ self.dropped_recording_frames > 0

\* k is the ceiling of a / b
IsCeiling(k, a, b) == k * b >= a /\ (k - 1) * b < a

\* numbers of the frames chosen so far whose push is over
Pushed ==
    IF prod.pc \in {"check", "put"}
    THEN 1..(prod.count_sent_frames - 1)
    ELSE 1..prod.count_sent_frames

\* numbers of the frames the consumer has come past
Passed == 1..cons.prev_frames_received

\* the producer counts every successful read, and numbers every k-th one
SelectsEveryKth ==
    /\ IsCeiling(prod.count_interval, env.native_fps, env.RECORD_FRAME_RATE)
    /\ (env.native_fps = 30 /\ env.RECORD_FRAME_RATE = 10)
           => prod.count_interval = 3
    /\ prod.count_cycle < prod.count_interval
    /\ prod.count_sent_frames * prod.count_interval + prod.count_cycle
           = env.reads
    /\ \A i \in 1..Len(self.q) :
           self.q[i][1] = self.q[i][4] * prod.count_interval

\* C9: the producer chooses exactly every k-th successfully read frame,
\* k = ceil(native_rate / target_rate) (3 for 30 and 10), numbers the chosen
\* frames 1, 2, 3, ... and hands each one to the queue's push: a chosen frame
\* is in the queue, or has been passed by the consumer, or was dropped by
\* the push.
C9_EveryKthForwarded ==
    /\ SelectsEveryKth
    /\ Pushed \subseteq (QueuedSeqs \cup Passed \cup DiscardedSeqs)

\* C9 witness: at 30 and 10 fps, six frames read, frames 3 and 6 forwarded
C9_Witness ==
    /\ env.native_fps = 30 /\ env.RECORD_FRAME_RATE = 10
    /\ env.reads = 6
    /\ Len(self.q) = 2
    /\ self.q[1][1] = 3 /\ self.q[2][1] = 6

\* C10: the queue never holds more than 251 frames, a discarded frame is not
\* in the queue (neither enqueued nor retried), a frame is discarded only when
\* the queue holds more than 250 frames, and the producer's test and put are
\* never blocked.
C10_QueueBounded ==
    /\ Len(self.q) <= QSIZE_LIMIT + 1
    /\ QueuedSeqs \cap DiscardedSeqs = {}
    /\ \A d \in hist.discarded : d[2] > QSIZE_LIMIT
    /\ prod.pc = "check" => ENABLED ProducerCheck
    /\ prod.pc = "put" => ENABLED ProducerPut

\* C10 witness: the queue holds 251 frames and a frame has been discarded
C10_Witness ==
    /\ Len(self.q) = QSIZE_LIMIT + 1
    /\ hist.discarded # {}

\* C11: IsRecording is assigned only by a handler that holds the camera's
\* re-entrant lock self.lock: no assignment has been made with the lock free,
\* and every handler that has returned has left every `with` block it entered.
C11_IsRecordingUnderLock ==
    ~self.unlocked_write /\ self.lock = 0

\* C11 witness: a session has been started and ended again, so both
\* assignments of IsRecording (start_record, __stop_recording_now) have run
C11_Witness ==
    /\ hist.sessions >= 1 /\ ~self.IsRecording
    /\ self.dropped_recording_frames >= 0
    /\ self.Writer = "None"

\* C12: forwarded frames carry strictly increasing sequence numbers and the
\* consumer receives them in capture order: the queue holds them in
\* increasing sequence number and non-decreasing capture time, the frame the
\* producer is about to put is later than all of them, and the frame the
\* consumer takes next has a larger sequence number and a capture time not
\* earlier than the frame it took last.
C12_FramesInOrder ==
    /\ \A i \in 1..(Len(self.q) - 1) :
           /\ self.q[i][4] < self.q[i + 1][4]
           /\ self.q[i][2] <= self.q[i + 1][2]
    /\ self.q # <<>> =>
           /\ cons.prev_frames_received < Head(self.q)[4]
           /\ cons.t <= Head(self.q)[2]
           /\ prod.pc = "put" =>
                  /\ self.q[Len(self.q)][4] < prod.count_sent_frames
                  /\ self.q[Len(self.q)][2] <= prod.frame_time
    /\ prod.pc = "put" =>
           /\ cons.prev_frames_received < prod.count_sent_frames
           /\ cons.t <= prod.frame_time

\* C12 witness: the consumer has taken frames, the producer has discarded
\* one (the numbers jump) and several frames are queued
C12_Witness ==
    /\ cons.prev_frames_received >= 2
    /\ hist.discarded # {}
    /\ Len(self.q) >= 2
    /\ \E i \in 1..(Len(self.q) - 1) : self.q[i + 1][4] > self.q[i][4] + 1

\* the line goes low in this step, ending a pulse shorter than the debounce
\* width
GlitchEnds ==
    /\ env.level = 1 /\ env'.level = 0
    /\ env.before_pulse # NoPulse
    /\ env'.now - self.most_recent_gpio_rising_edge_time < DEBOUNCE

\* C13 (as claimed): a pulse shorter than the 5 ms debounce width changes
\* nothing: after its falling edge the decoder mode, the consecutive-pulse
\* count, the stored edge times and the identifier are what they were before
\* its rising edge, and the session state is untouched.
C13_GlitchChangesNothing ==
    [][ GlitchEnds =>
          /\ Decoder(self') = env.before_pulse
          /\ self'.IsRecording = self.IsRecording
          /\ self'.pending_stop_record_time = self.pending_stop_record_time
          /\ self'.pending = self.pending
          /\ self'.delayed_threads = self.delayed_threads ]_vars

\* the line goes low in this step, ending a pulse that is not ignored as bounce
PulseEnds ==
    /\ env.level = 1 /\ env'.level = 0
    /\ self.most_recent_gpio_rising_edge_time >= 0
    /\ env'.now - self.most_recent_gpio_rising_edge_time >= DEBOUNCE

\* the width of the pulse that ends in this step
PulseWidth == env'.now - self.most_recent_gpio_rising_edge_time

\* the width on_time is outside the band the mode's branch of
\* GPIO_falling_edge expects
OutOfBand(mode, on_time) ==
    CASE mode = "Binary" -> on_time > BINARY_BIT_PULSE_THRESHOLD * 2
      [] mode = "Checksum" -> on_time >= BINARY_BIT_PULSE_THRESHOLD * 3
      [] mode = "Debug" -> on_time < 65 \/ on_time > 85
      [] OTHER -> FALSE

ReadFailureHandled ==
    prod.pc = "lost" /\ prod'.pc = "loop"

\* C15 (as claimed): when a read fails while a session is recorded, the
\* producer's handling of the failure ends the session at once: the camera is
\* no longer recording and the three sinks are closed, with no further frame
\* delivered to the consumer.
C15_ReadFailureStopsSession ==
    [][ ( ReadFailureHandled /\ self.IsRecording )
        => /\ ~self'.IsRecording
           /\ self'.Writer = "None"
           /\ self'.fid = "None"
           /\ self'.fid_TTL = "None" ]_vars

\* the consumer delivers, in this step, a frame of the running session to
\* process_one_frame while the data folder does not accept writes and no stop
\* is due: the write of the frame log or of the video fails
WriteFails ==
    /\ ConsumerDelivers /\ cons.pc = "loop"
    /\ self.IsRecording /\ self.cam = "Open"
    /\ ~env.diskOK
    /\ self.pending = "Nothing"
    /\ ~(0 < self.pending_stop_record_time
           /\ self.pending_stop_record_time < Head(self.q)[2])
    /\ Head(self.q)[2] >= self.start_recording_time
    /\ self.fid # "None" \/ self.Writer = "Open"

\* C16 (as claimed): when a write to the frame log or to the video fails, the
\* session is force-stopped: the camera is no longer recording, every sink is
\* closed, and the consumer loop keeps running.
C16_WriteFailureStopsSession ==
    [][ WriteFails
        => /\ ~self'.IsRecording
           /\ self'.Writer = "None"
           /\ self'.fid = "None"
           /\ self'.fid_TTL = "None"
           /\ cons'.pc = "loop" ]_vars

\* the operator starts a session in this step on an idle camera for which
\* one of the sinks cannot be created
StartWithoutSink ==
    /\ ~self.IsRecording /\ self.cam = "Open"
    /\ self.codec = "missing" \/ ~env.diskOK
    /\ self' = Returned(start_record(self, ID_Typed, env.now, env.diskOK))
    /\ UNCHANGED <<prod, cons, env, script>>

\* C17 (as claimed): when a sink (video, frame log, pulse log) cannot be
\* created, the start fails: the camera stays not recording and no sink is
\* left open.
C17_FailedStartLeavesNothing ==
    [][ StartWithoutSink
        => /\ ~self'.IsRecording
           /\ self'.Writer # "Open"
           /\ self'.fid # "Open"
           /\ self'.fid_TTL # "Open" ]_vars

\* C18 (as claimed): the producer loop never acquires the camera's session
\* lock, on any path.
C18_ProducerNeverLocks ==
    ~prod.lock_used

\* C18 (amended): a pass of the producer loop acquires the camera's session
\* lock exactly when it handles a failed read while a session is recorded (in
\* the stop_record() it then calls); reading, forwarding, discarding and
\* reconnecting never acquire it.
C18_ProducerLocksOnlyOnFailure ==
    [][ prod' # prod
        => ( prod'.lock_used
               <=> ( /\ ReadFailureHandled
                     /\ self.pending # "Exiting"
                     /\ self.IsRecording ) ) ]_vars

\* C18 witness: the producer has handled a failed read during a session and
\* has released the device
C18_Witness ==
    /\ prod.lock_used
    /\ self.cam = "None"
    /\ self.pending_stop_record_time > 0
    /\ prod.nextRetry > 0

\* the producer tries, in this step, to reconnect a camera that is not there
ReconnectFails ==
    /\ prod.pc = "loop" /\ prod.nextRetry > 0
    /\ self.pending # "Exiting"
    /\ ~env.camPlugged
    /\ prod' # prod

\* C19 (as claimed): after a read failure the producer does not terminate; a
\* failed reconnect attempt never ends its loop: the producer stays in the
\* loop with the camera marked unavailable and a further attempt scheduled.
C19_FailedReconnectKeepsLoop ==
    [][ ReconnectFails
        => /\ prod'.pc = "loop"
           /\ prod'.nextRetry > 0
           /\ self'.cam = "None" ]_vars

\* the pulse that ends in this step is the N_stop-th consecutive short pulse
\* received while a session is recorded
StopPulseEnds ==
    /\ PulseEnds
    /\ self.IsRecording /\ self.TTL_mode = "Normal"
    /\ PulseWidth < 200
    /\ self.num_consec_TTLs + 1 = NUM_TTL_PULSES_TO_STOP_SESSION

\* C20: while a session is recorded, the falling edge of the N_stop-th
\* consecutive short pulse requests the stop at once: the stop deadline is
\* the time of that edge, and no delayed thread is started (no settle delay).
C20_StopBurstRequestsStop ==
    [][ StopPulseEnds
        => /\ self'.pending_stop_record_time = env'.now
           /\ self'.delayed_threads = self.delayed_threads
           /\ self'.num_consec_TTLs = NUM_TTL_PULSES_TO_STOP_SESSION ]_vars

\* C20 witness: the third pulse of a burst has ended during a session and the
\* stop deadline is the time of its falling edge
C20_Witness ==
    /\ self.IsRecording /\ env.level = 0
    /\ self.num_consec_TTLs = NUM_TTL_PULSES_TO_STOP_SESSION
    /\ self.TTL_num >= NUM_TTL_PULSES_TO_STOP_SESSION
    /\ self.pending_stop_record_time = self.most_recent_gpio_falling_edge_time
    /\ self.delayed_threads = {}

C22_FilenamesSerialized ==
    \A a, b \in BoxIds :
        a # b =>
            /\ ~ /\ env.starting[a].pc \in {"search", "create"}
                 /\ env.starting[b].pc \in {"search", "create"}
            /\ ( /\ env.starting[a].pc \in {"create", "named"}
                 /\ env.starting[b].pc \in {"create", "named"} )
               => env.starting[a].filename_video
                      # env.starting[b].filename_video

\* C22 witness: box 1 has searched past a used suffix and is about to
\* create its file while box 2 waits for the lock
C22_Witness ==
    /\ env.starting[1].pc = "create"
    /\ env.starting[1].suffix_count > 0
    /\ env.global_lock = 1
    /\ env.starting[2].pc = "wait"

\* C23: a put that finds the write position on a slot whose frame has been
\* pushed and not yet popped raises Full, and a put that raises Full has
\* written nothing: the slots, the write position and the queue of pushed
\* indices are as before.  Hence no put overwrites such a slot.
C23_PutNeverOverwrites ==
    [][ LET r == env.ring
            r2 == env'.ring
            unread == { r.queue[i][3] : i \in DOMAIN r.queue }
        IN  r2.puts # r.puts
                => /\ r.idx_item \in unread => r2.Full
                   /\ r2.Full => /\ r2.view = r.view
                                 /\ r2.idx_item = r.idx_item
                                 /\ r2.queue = r.queue ]_vars

\* C23 witness: every slot holds a frame the consumer has not popped, the
\* write position has wrapped onto the oldest of them, and the put was
\* refused
C23_Witness ==
    LET r == env.ring
    IN  /\ r.Full
        /\ r.puts > n_items
        /\ Len(r.queue) = n_items
        /\ r.idx_item = Head(r.queue)[3]
        /\ \A i \in 0..(n_items - 1) : r.view[i] = i + 1

\* C24: close() always completes.  As a property of finite runs: while
\* close() waits in its loop for the recording to end, the consumer is in
\* its loop and either a frame is queued for it or the camera is open to
\* deliver one (the session is finalized by the consumer, on a frame).
C24_CloseCompletes ==
    (self.close_pc = "wait" /\ self.IsRecording)
        => /\ cons.pc = "loop"
           /\ self.q # <<>> \/ self.cam = "Open"

\* C29: after close() has returned the camera is not recording and none of
\* its sinks is open.
C29_ClosedMeansStopped ==
    self.close_pc = "closed"
        => /\ ~self.IsRecording
           /\ self.Writer \in {"None", "Released"}
           /\ self.fid = "None"
           /\ self.fid_TTL = "None"

\* C25: a frame the producer discards changes nothing of the camera object,
\* and every frame the consumer counts into a recording session adds to
\* dropped_recording_frames exactly the number of frames of that session
\* (captured at or after its start) that the producer discarded between the
\* frame delivered before and this one.
C25_DroppedCountExact ==
    [][ /\ hist'.discarded # hist.discarded => self' = self
        /\ ( /\ ConsumerDelivers
             /\ self.IsRecording /\ self'.IsRecording
             /\ self'.frames_recorded = self.frames_recorded + 1 )
           => self'.dropped_recording_frames - self.dropped_recording_frames
                = Cardinality(
                    { d \in DiscardedSeqs :
                        /\ cons.prev_frames_received < d
                        /\ d < Head(self.q)[4]
                        /\ T0 + d * FramePeriod(env.native_fps)
                               >= self.start_recording_time } ) ]_vars

\* C26: when an edge ends an identifier transmission (the decoder goes from
\* Binary or Checksum to Normal) and the transmission was not a correct one
\* (a correct one ends with a checksum pulse below three bit thresholds,
\* after 16 bits, whose value is the parity of the bits), the identifier
\* is "Unknown" or "Checksum fail": not a decoded value, not "Pending".
C26_ViolationMarksIDFailed ==
    [][ ( /\ env'.edges # env.edges
          /\ self.TTL_mode \in {"Binary", "Checksum"}
          /\ self'.TTL_mode = "Normal"
          /\ ~ ( /\ self.TTL_mode = "Checksum"
                 /\ self.TTL_binary_bits = ID_BITS
                 /\ PulseWidth < BINARY_BIT_PULSE_THRESHOLD * 3
                 /\ self.TTL_checksum =
                        (IF PulseWidth < BINARY_BIT_PULSE_THRESHOLD
                         THEN 0 ELSE 1) ) )
        => self'.current_animal_ID \in {ID_Unknown, ID_ChecksumFail} ]_vars

C28_OnlyOwnStopEnds ==
    [][ ( /\ ConsumerDelivers
          /\ self.IsRecording /\ ~self'.IsRecording
          /\ self.pending # "ForceStop"
          /\ env.diskOK )
        => self.pending_stop_record_time >= self.start_recording_time ]_vars

\* C30: when the consumer delivers a frame to a recording camera with a
\* forced stop pending, the session is finalized in that step (IsRecording
\* False, the three sinks closed, the request consumed) and the frame is not
\* written to the video file or the frame log, whenever it was captured.
C30_ForcedStopSkipsGrace ==
    [][ ( /\ ConsumerDelivers
          /\ self.pending = "ForceStop"
          /\ self.IsRecording )
        => /\ ~self'.IsRecording
           /\ self'.pending = "Nothing"
           /\ self'.Writer = "None"
           /\ self'.fid = "None"
           /\ self'.fid_TTL = "None"
           /\ self'.file_video = self.file_video
           /\ self'.file_frames = self.file_frames ]_vars

\* C30 witness: a session was ended by a forced stop on a frame that was
\* captured during the session and before the stop was requested (a
\* non-forced stop requested at the same moment set its deadline after the
\* frame's time stamp); nothing was written
C30_Witness ==
    /\ hist.sessions = 1
    /\ ~self.IsRecording
    /\ self.pending = "Nothing"
    /\ self.Writer = "None"
    /\ cons.t >= self.start_recording_time
    /\ cons.t < self.pending_stop_record_time
    /\ self.file_video = <<>>
    /\ self.file_frames = <<>>

\* C31: a short pulse that ends in Normal mode while the camera is
\* recording (and the disk takes writes) appends to the pulse log exactly
\* one row, made of the next event number and the pulse's rising and falling
\* times less the session's start time, unless a stop deadline was set
\* before the pulse's rising edge: then the log is left as it was.
C31_TrialRowPerPulse ==
    [][ ( /\ PulseEnds
          /\ self.TTL_mode = "Normal"
          /\ PulseWidth < 200
          /\ self.IsRecording
          /\ env.diskOK )
        => IF /\ 0 < self.pending_stop_record_time
              /\ self.pending_stop_record_time
                     < self.most_recent_gpio_rising_edge_time
           THEN self'.file_TTLs = self.file_TTLs
           ELSE self'.file_TTLs =
                    Append(self.file_TTLs,
                           << self.TTL_num + 1,
                              self.most_recent_gpio_rising_edge_time
                                  - self.start_recording_time,
                              env'.now - self.start_recording_time >>) ]_vars

\* C31 witness: a session whose pulse log holds the rows of three pulses;
\* the third set the stop deadline and a fourth pulse, which rose after it,
\* was numbered but not logged
C31_Witness ==
    /\ self.IsRecording
    /\ env.level = 0
    /\ Len(self.file_TTLs) = 3
    /\ self.file_TTLs[3][1] = 3
    /\ self.TTL_num = 4
    /\ 0 < self.pending_stop_record_time

\* C32: on a camera that is recording, start_record changes nothing.  A
\* delayed_start thread that wakes while a session is running leaves the
\* camera object as it was (one thread fewer), and an operator start in any
\* recording state would return the object as it is: counters, start time,
\* identifier, sinks and log contents are the running session's, and no
\* second session is counted.
C32_StartWhileRecordingIsNoOp ==
    [][ /\ self.IsRecording
            => Returned(start_record(self, ID_Typed, env'.now, env.diskOK))
                   = self
        /\ ( /\ self.IsRecording
             /\ env'.edges = env.edges
             /\ self.delayed_threads # {}
             /\ self'.delayed_threads
                    = self.delayed_threads \ {Min(self.delayed_threads)} )
           => /\ self' = [self EXCEPT !.delayed_threads = self'.delayed_threads]
              /\ hist' = hist ]_vars

\* C32 witness: the operator started the session while a delayed start was
\* waiting out its 0.5 s; the thread has woken since and the session is
\* still the operator's, with the pulses it logged
C32_Witness ==
    /\ self.IsRecording
    /\ hist.sessions = 1
    /\ self.current_animal_ID = ID_Typed
    /\ self.delayed_threads = {}
    /\ self.num_consec_TTLs = NUM_TTL_PULSES_TO_START_SESSION
    /\ self.start_recording_time
           < self.most_recent_gpio_falling_edge_time + wait_interval_sec
    /\ env.now >= self.most_recent_gpio_falling_edge_time + wait_interval_sec
    /\ self.start_recording_time >= self.most_recent_gpio_falling_edge_time

\* C33: whenever no handler holds the camera's lock, a recording camera has
\* its video writer, frame log and pulse log open, and a camera that is not
\* recording has none of them open.
C33_RecordingIffSinksOpen ==
    self.lock = 0 =>
        IF self.IsRecording
        THEN self.Writer = "Open" /\ self.fid = "Open" /\ self.fid_TTL = "Open"
        ELSE self.Writer # "Open" /\ self.fid # "Open" /\ self.fid_TTL # "Open"

\* C34: no reconnect attempt is made before the scheduled next-retry time
\* (5 s after the read failure or after the previous failed attempt): in every
\* step in which the producer, with a retry scheduled, calls setup_cam (any
\* step of its retry branch other than the one-second sleep, which is the only
\* one that lets time pass), the clock has reached nextRetry.
C34_NoAttemptBeforeRetryTime ==
    [][ ( /\ prod.pc = "loop" /\ prod.nextRetry > 0
          /\ self.pending # "Exiting"
          /\ env'.now = env.now
          /\ (prod' # prod \/ self'.cam # self.cam) )
        => env.now >= prod.nextRetry ]_vars

\* C35 (as claimed): in Normal mode a pulse whose width is in the medium band
\* (0.2 s up to 0.4 s) switches the decoder to Binary mode and resets the
\* identifier accumulator, the parity and the bit count to zero.
C35_MediumPulseStartsBinary ==
    [][ ( /\ PulseEnds /\ self.TTL_mode = "Normal"
          /\ 200 <= PulseWidth /\ PulseWidth < 400 )
        => /\ self'.TTL_mode = "Binary"
           /\ self'.TTL_tmp_ID = 0
           /\ self'.TTL_checksum = 0
           /\ self'.TTL_binary_bits = 0 ]_vars

\* C35 (amended): in Normal mode a pulse whose width is in the medium band, on
\* a camera that is not recording, switches the decoder to Binary mode and
\* resets the identifier accumulator, the parity and the bit count to zero;
\* on a recording camera it leaves the decoder in Normal mode and is counted
\* as one more consecutive pulse.
C35_MediumPulseStartsBinaryWhenIdle ==
    [][ ( /\ PulseEnds /\ self.TTL_mode = "Normal"
          /\ 200 <= PulseWidth /\ PulseWidth < 400 )
        => IF ~self.IsRecording
           THEN /\ self'.TTL_mode = "Binary"
                /\ self'.TTL_tmp_ID = 0
                /\ self'.TTL_checksum = 0
                /\ self'.TTL_binary_bits = 0
           ELSE /\ self'.TTL_mode = "Normal"
                /\ self'.num_consec_TTLs = self.num_consec_TTLs + 1
                /\ self'.TTL_tmp_ID = self.TTL_tmp_ID
                /\ self'.TTL_checksum = self.TTL_checksum
                /\ self'.TTL_binary_bits = self.TTL_binary_bits ]_vars

\* C35 witness: a second transmission has been opened by a medium pulse after
\* the first one, which had received a one bit, was abandoned
C35_Witness ==
    /\ env.level = 0 /\ env.edges = MaxEdges
    /\ ~self.IsRecording
    /\ self.TTL_mode = "Binary"
    /\ self.current_animal_ID = ID_Pending
    /\ self.TTL_binary_bits = 0 /\ self.TTL_checksum = 0
    /\ self.most_recent_gpio_falling_edge_time
          - self.most_recent_gpio_rising_edge_time = 300

\* C36: a rising edge that comes more than the burst threshold (0.1 s) after
\* the last falling edge resets the consecutive-pulse count to zero, and one
\* that comes at or within the threshold leaves the count as it was; a short
\* pulse (under 0.2 s) that ends in Normal mode after a gap above the
\* threshold is counted as pulse 1.
C36_GapResetsBurstCount ==
    [][ /\ ( env.level = 0 /\ env'.level = 1 )
            => self'.num_consec_TTLs =
                   IF env'.now - self.most_recent_gpio_falling_edge_time > 100
                   THEN 0 ELSE self.num_consec_TTLs
        /\ ( /\ PulseEnds /\ self.TTL_mode = "Normal" /\ PulseWidth < 200
             /\ env.before_pulse # NoPulse
             /\ self.most_recent_gpio_rising_edge_time
                  - env.before_pulse.most_recent_gpio_falling_edge_time > 100 )
            => self'.num_consec_TTLs = 1 ]_vars

\* C36 witness: the line has gone high more than 0.1 s after the second short
\* pulse of a burst ended, and the count of two has been reset
C36_Witness ==
    /\ env.level = 1
    /\ env.before_pulse # NoPulse
    /\ env.before_pulse.TTL_mode = "Normal"
    /\ env.before_pulse.num_consec_TTLs = 2
    /\ self.most_recent_gpio_rising_edge_time
          - env.before_pulse.most_recent_gpio_falling_edge_time > 100
    /\ self.num_consec_TTLs = 0

\* C37: a frame that the consumer takes from the queue while a session is
\* recorded, and whose capture timestamp is earlier than the session's start
\* time, is neither counted (frames received, recorded and dropped stay as
\* they are) nor written to the video file or the frame log; and every row of
\* the frame log has an elapsed time of zero or more.
C37_NoFrameFromBeforeStart ==
    [][ /\ ( /\ ConsumerDelivers
             /\ self.IsRecording
             /\ Head(self.q)[2] < self.start_recording_time )
            => /\ self'.file_video = self.file_video
               /\ self'.file_frames = self.file_frames
               /\ self'.frames_received = self.frames_received
               /\ self'.frames_recorded = self.frames_recorded
               /\ self'.dropped_recording_frames
                      = self.dropped_recording_frames
        /\ \A i \in 1..Len(self'.file_frames) :
               self'.file_frames[i][2] >= 0 ]_vars

\* C37 witness: in a session started with frames waiting in the queue, the
\* consumer's last frame was captured before the start and nothing has been
\* counted or written, and the frame at the head of the queue was captured
\* after the start
C37_Witness ==
    /\ self.IsRecording /\ hist.sessions = 1
    /\ cons.t > 0 /\ cons.t < self.start_recording_time
    /\ self.frames_received = 0 /\ self.frames_recorded = 0
    /\ self.file_frames = <<>> /\ self.file_video = <<>>
    /\ self.q # <<>>
    /\ Head(self.q)[2] >= self.start_recording_time

\* C38: with one element shape, the ring buffer delivers in push order: for
\* every k, the k-th call of get has returned the frame, the timestamp and
\* the pulse flag of the k-th put that did not raise Full.
C38_RingIsFIFO ==
    LET r == env.ring
    IN  /\ Len(r.got) <= Len(r.pushed)
        /\ \A k \in 1..Len(r.got) : r.got[k] = r.pushed[k]

\* C38 witness: the consumer has taken more frames than the ring has slots,
\* the last of them pushed with the pulse flag set into a slot used before,
\* while another frame is waiting
C38_Witness ==
    LET r == env.ring
    IN  /\ Len(r.got) > n_items
        /\ Len(r.pushed) > Len(r.got)
        /\ r.got[Len(r.got)][3]
        /\ ~r.got[1][3]
        /\ r.got[Len(r.got)][2] > n_items

\* C39: a put of an element whose shape or dtype is not that of the ring
\* buffer's view is refused: no put changes the element shape of a view that
\* exists, none sets the write position back (it stays or moves on by one
\* slot), and none changes a slot that holds a frame pushed and not yet
\* popped.
C39_ShapeMismatchIsError ==
    [][ LET r == env.ring
            r2 == env'.ring
            unread == { r.queue[i][3] : i \in DOMAIN r.queue }
        IN  (r2.puts # r.puts /\ r.has_view)
                => /\ r2.el_shape = r.el_shape
                   /\ r2.idx_item \in {r.idx_item, (r.idx_item + 1) % n_items}
                   /\ \A i \in unread : r2.view[i] = r.view[i] ]_vars


=============================================================================
